---- MODULE Spec2Model ----
(***************************************************************************)
(* State machine of one OSPF-Gaming daemon (src/ospf_gaming_daemon.py):    *)
(* the shared state of OSPFGamingDaemon, the listener, hello, metric and   *)
(* dead-interval threads, the SPF of src/algorithm.py and the kernel route *)
(* reconciliation.  Every block a thread runs under _state_lock is one     *)
(* atomic action; what a thread does between two such blocks is a separate *)
(* action, so the threads interleave where the code lets them.             *)
(*                                                                         *)
(* Units: time is in tenths of a second, costs are in thousandths.         *)
(***************************************************************************)
EXTENDS Integers, Sequences, FiniteSets, TLC

\* ------------------------------------------------------------------------
\* Bounds of the model
\* ------------------------------------------------------------------------

\* Largest seqnum an inbound LSA carries.
MaxSeq == 1

\* Largest hop count an inbound LSA carries.
MaxHops == 2

\* time.time() when the daemon is constructed, in tenths of a second.
Epoch == 1000

\* Largest value self._seqnum reaches: no pass starts that would exceed it.
MaxOwnSeq == 3

\* The longest sequence of LSAs that is replayed.
MaxScript == 3

\* The largest finite edge weight of the graphs given to SPF on its own.
MaxWeight == 1

\* ------------------------------------------------------------------------
\* Program constants
\* ------------------------------------------------------------------------

DEAD_INTERVAL == 20

LSA_TTL_HOPS == 8

\* float("inf")
Inf == 1000000

\* Seconds to tenths of a second.
Tenths(s) == s * 10

\* A cost c (a float of the program) in thousandths.
Milli(c) == c * 1000

\* The value of a "cost" key that a metrics dict does not hold yet.
NoCost == 0 - 1

\* dict.get(key) of an entry that is missing (None).
None == "none"

\* ------------------------------------------------------------------------
\* Configuration (config.json of router r1)
\* ------------------------------------------------------------------------

router_id == "r1"

\* Every router id a packet may name: self, the two configured neighbours and a
\* router that is no neighbour.
Routers == {"r1", "r2", "r3", "r4"}

neighbor_settings ==
  [r2 |-> [ip |-> <<10, 0, 1, 2>>, bandwidth |-> 1000],
   r3 |-> [ip |-> <<10, 0, 2, 3>>, bandwidth |-> 900]]

\* list(self.neighbors.keys()): the configured neighbours, in config order.
NeighborOrder == <<"r2", "r3">>

NeighborIds == DOMAIN neighbor_settings

\* base = ".".join(ip.split(".")[:3]) + ".0/24"
Subnet24(ip) == <<ip[1], ip[2], ip[3], 0, 24>>

\* self.local_prefixes after __init__.
local_prefixes == {Subnet24(neighbor_settings[n].ip) : n \in NeighborIds}

\* dead_interval of config.json, in seconds (hello_interval is 1).
ConfigDeadIntervals == {3}

\* ------------------------------------------------------------------------
\* Inputs
\* ------------------------------------------------------------------------

\* The instants (offsets from Epoch, in tenths of a second) at which something
\* happens: the start, a Hello at t = 2 s, a pass at t = 5.1 s, one at 22.1 s.
Offsets == {0, 20, 51, 221}

Instants == {Epoch + o : o \in Offsets}

RemotePrefix == <<10, 0, 9, 0, 24>>

\* One element of the "prefixes" list of an LSA: a string or something else.
Str(p) == [str |-> TRUE, v |-> p]

NonStr == [str |-> FALSE, v |-> <<9>>]

PrefixLists ==
  { {},
    {Str(RemotePrefix)},
    {Str(Subnet24(neighbor_settings.r2.ip)), Str(RemotePrefix), NonStr} }

EmptyLinks == [x \in {} |-> 0]

\* The "neighbors" object of an LSA: neighbour id -> cost.
LinkVectors == {EmptyLinks, [x \in {"r3", "r4"} |-> Milli(1)]}

\* Every LSA that `origin` may be announced with.
LsasOf(origin) ==
  [type : {"lsa"}, router_id : {origin}, neighbors : LinkVectors,
   seqnum : 0..MaxSeq, prefixes : PrefixLists, hops : 0..MaxHops]

\* What measure_link_quality may return: (latency, jitter, loss).
UnusableSample == [latency |-> Inf, jitter |-> Inf, loss |-> 100]

GoodSample == [latency |-> 20, jitter |-> 2, loss |-> 0]

\* The environments the daemon is run in.
\*  - flooding: every LSA of one origin arrives, from either neighbour, while
\*    the timers are quiet;
\*  - timers: the clock advances, r2 sends Hellos and answers the probes or
\*    not, r3 is unreachable;
\*  - routes: r2 answers the probes, an LSA of r2, of r4 and one naming this
\*    router as its origin arrive, and so do Hellos of self and of a stranger;
\*    the clock may jump far ahead;
\*  - next hop: both neighbours answer the probes and announce the same
\*    remote prefix;
\*  - datagrams: payloads of every kind arrive, well formed or not.
FloodEnvironment(origin) ==
  [name |-> "flood",
   lsas |-> LsasOf(origin),
   sources |-> NeighborIds,
   hellos |-> {},
   instants |-> {},
   samples |-> [n \in NeighborIds |-> {}],
   passes |-> 0,
   stops |-> FALSE,
   datagrams |-> {}]

TimerEnvironment ==
  [name |-> "timers",
   lsas |-> {},
   sources |-> {},
   hellos |-> {"r2"},
   instants |-> Instants,
   samples |-> [n \in NeighborIds |->
                  IF n = "r2" THEN {GoodSample, UnusableSample}
                  ELSE {UnusableSample}],
   passes |-> MaxOwnSeq,
   stops |-> FALSE,
   datagrams |-> {}]

Lsa(origin, seqnum, links, prefixes) ==
  [type |-> "lsa", router_id |-> origin, neighbors |-> links,
   seqnum |-> seqnum, prefixes |-> prefixes, hops |-> MaxHops]

RouteLsas ==
  { Lsa("r2", 0, EmptyLinks, {}),
    Lsa("r2", 1, [x \in {"r1", "r4"} |-> Milli(1)],
        {Str(Subnet24(neighbor_settings["r2"].ip)), Str(RemotePrefix)}),
    Lsa("r4", 1, [x \in {"r2"} |-> Milli(1)], {Str(RemotePrefix)}),
    Lsa("r1", 1, EmptyLinks, {Str(RemotePrefix)}) }

\* An instant 130 s after the start: every LSA received before it is by then
\* older than any of the intervals of the daemon.
LongAfter == Epoch + Tenths(130)

RouteEnvironment ==
  [name |-> "routes",
   lsas |-> RouteLsas,
   sources |-> {"r2"},
   hellos |-> {"r1", "r4"},
   instants |-> {LongAfter},
   samples |-> [n \in NeighborIds |->
                  IF n = "r2" THEN {GoodSample} ELSE {UnusableSample}],
   passes |-> 1,
   stops |-> FALSE,
   datagrams |-> {}]

\* Both neighbours answer the probes and both announce the remote prefix, so
\* that its next hop depends on which of them is heard of last; stop() may be
\* called at any moment.
NextHopLsas ==
  { Lsa("r2", 1, [x \in {"r1"} |-> Milli(1)], {Str(RemotePrefix)}),
    Lsa("r3", 1, [x \in {"r1"} |-> Milli(1)], {Str(RemotePrefix)}) }

NextHopEnvironment ==
  [name |-> "nexthop",
   lsas |-> NextHopLsas,
   sources |-> {"r2"},
   hellos |-> {},
   instants |-> {},
   samples |-> [n \in NeighborIds |-> {GoodSample}],
   passes |-> 1,
   stops |-> TRUE,
   datagrams |-> {}]

\* A JSON number and a JSON string, as json.loads returns them.
JNum(n) == [json |-> "number", value |-> n]

JStr(text) == [json |-> "string", value |-> text]

\* A datagram whose payload is a JSON object of type "lsa".
Raw(origin, seqnum, hops, links) ==
  [form |-> "object",
   value |-> [type |-> "lsa", router_id |-> origin, neighbors |-> links,
              seqnum |-> seqnum, prefixes |-> {}, hops |-> hops]]

\* Datagrams as they come off the socket: bytes that are not UTF-8, text that
\* is not JSON, a JSON array, and LSAs whose seqnum, hops or link cost is a
\* string, numeric or not.
RawDatagrams ==
  { [form |-> "bytes"], [form |-> "text"], [form |-> "array"],
    Raw("r2", JStr("abc"), JNum(MaxHops), [x \in {"r3"} |-> JNum(Milli(1))]),
    Raw("r2", JNum(1), JStr("abc"), [x \in {"r3"} |-> JNum(Milli(1))]),
    Raw("r2", JNum(1), JNum(MaxHops), [x \in {"r3"} |-> JStr("abc")]),
    Raw("r4", JNum(0), JNum(MaxHops), [x \in {"r2"} |-> JStr("abc")]),
    Raw("r2", JStr("1"), JNum(MaxHops), [x \in {"r3"} |-> JNum(Milli(1))]) }

\* Every kind of datagram arrives, among them well-formed LSAs of r2.
DatagramEnvironment ==
  [name |-> "datagrams",
   lsas |-> { Lsa("r2", 0, [x \in {"r3"} |-> Milli(1)], {}),
              Lsa("r2", 1, [x \in {"r4"} |-> Milli(1)], {}) },
   sources |-> {"r2"},
   hellos |-> {"r2"},
   instants |-> {},
   samples |-> [n \in NeighborIds |-> {}],
   passes |-> 0,
   stops |-> FALSE,
   datagrams |-> RawDatagrams]

Environments ==
  {FloodEnvironment(origin) : origin \in {"r1", "r2", "r4"}}
    \cup {TimerEnvironment, RouteEnvironment, NextHopEnvironment,
          DatagramEnvironment}

NoMessage == [type |-> "none"]

\* ------------------------------------------------------------------------
\* State
\* ------------------------------------------------------------------------

VARIABLES
  env,               \* the environment: what arrives, when, how probes answer
  config,            \* the loaded config.json (the part the model varies)
  now,               \* time.time()
  neighbors,         \* self.neighbors: id -> [last_hello, metrics]
  topology_graph,    \* self.topology_graph: router -> (router -> cost)
  topology_keys,     \* the keys of self.topology_graph in insertion order
  lsdb_prefixes,     \* self.lsdb_prefixes: router -> set of prefixes
  lsa_versions,      \* self.lsa_versions: origin -> seqnum
  routing_table,     \* self.routing_table: destination -> next hop id
  installed_routes,  \* self.installed_routes: prefix -> next hop ip
  fib,               \* the routes the ip commands left in the kernel
  own_seqnum,        \* self._seqnum
  pc,                \* where each thread is
  new_routing_table, \* _recalculate_routes: the local of each thread
  desired_prefixes,  \* _synchronise_kernel_routes: the local of each thread
  message,           \* _process_lsa: the LSA in hand
  source_ip,         \* _listen_loop: the neighbour the datagram came from
  need_reflood,      \* _process_lsa: local
  probe_index,       \* _update_link_metrics: position in neighbors_copy
  sends,             \* the datagrams the last step handed to sendto
  ip_failed,         \* whether an ip command has failed so far (history)
  published,         \* the links and metrics at the last self LSA (history)
  dropped,           \* the neighbours whose link the dead pass in progress
                     \* has deleted (history)
  last,              \* the last step taken (history)
  state_lock,        \* self._state_lock: the thread that holds it, or None
  position,          \* the instruction each thread is at (locking discipline)
  replay,            \* a sequence of LSAs fed twice to _process_lsa
  spf_run,           \* one call of calculate_shortest_paths
  cost_run,          \* one call of _calculate_cost and of compute_qos_cost
  network            \* several daemons and the LSAs in flight between them

vars ==
  <<env, config, now, neighbors, topology_graph, topology_keys, lsdb_prefixes,
    lsa_versions, routing_table, installed_routes, fib, own_seqnum, pc,
    new_routing_table, desired_prefixes, message, source_ip, need_reflood,
    probe_index, sends,
    ip_failed, published, dropped, last,
    state_lock, position, replay, spf_run, cost_run, network>>

\* The variables of the specifications that study one aspect or one function
\* on its own; the daemon's steps leave them alone.
apart == <<state_lock, position, replay, spf_run, cost_run, network>>

\* The LSDB: sequence numbers, link vectors and prefix sets by origin.
lsdb == <<lsa_versions, topology_graph, topology_keys, lsdb_prefixes>>

routes == <<routing_table, installed_routes, fib>>

lsa_locals == <<message, source_ip, need_reflood>>

\* The threads of start() that touch the shared state.
Workers == {"listener", "metrics", "dead"}

\* The threads that have a position: the four threads of start() and the
\* thread that runs start() and stop().
Threads == Workers \cup {"hello", "main"}

\* A flag that stop() does not clear.
NeverCleared == TRUE

\* self._running.is_set(): set by __init__, cleared by stop().
running == pc["main"] = "serving"

\* ------------------------------------------------------------------------
\* Dictionaries
\* ------------------------------------------------------------------------

EmptyDict == [x \in {} |-> 0]

\* d[k] = v
Put(d, k, v) == [x \in DOMAIN d \cup {k} |-> IF x = k THEN v ELSE d[x]]

\* del d[k]
Del(d, k) == [x \in DOMAIN d \ {k} |-> d[x]]

\* d.get(k, default)
Get(d, k, default) == IF k \in DOMAIN d THEN d[k] ELSE default

\* The keys of a dict after key k was set: a new key goes last.
Touch(keys, k) ==
  IF \E i \in 1..Len(keys) : keys[i] = k THEN keys ELSE Append(keys, k)

\* ------------------------------------------------------------------------
\* SPF (src/algorithm.py)
\* ------------------------------------------------------------------------

\* Router ids in the order Python compares the strings.
RouterOrder == <<"r1", "r2", "r3", "r4">>

Rank(r) == CHOOSE i \in 1..Len(RouterOrder) : RouterOrder[i] = r

\* a + b on floats, where either may be float("inf").
Plus(a, b) == IF a = Inf \/ b = Inf THEN Inf ELSE a + b

\* (d1, n1) < (d2, n2) on the heap's tuples.
HeapLess(e1, e2) ==
  \/ e1[1] < e2[1]
  \/ e1[1] = e2[1] /\ Rank(e1[2]) < Rank(e2[2])

\* The greatest entry of the queue.
HeapMax(queue) ==
  CHOOSE e \in queue : \A f \in queue : f = e \/ HeapLess(f, e)

\* heapq.heappop: the least entry of the queue.
HeapMin(queue) ==
  CHOOSE e \in queue : \A f \in queue : f = e \/ HeapLess(e, f)

\* The edges of current_node that improve a distance (algorithm.py:46-48).
Improved(graph, distances, current_node, current_distance) ==
  LET edges == Get(graph, current_node, EmptyDict)
  IN  { neighbour \in DOMAIN edges :
          Plus(current_distance, edges[neighbour])
            < Get(distances, neighbour, Inf) }

\* The while loop of calculate_shortest_paths; the result is `previous`.
RECURSIVE DijkstraLoop(_, _, _, _, _)
DijkstraLoop(graph, priority_queue, visited, distances, previous) ==
  IF priority_queue = {} THEN previous
  ELSE
    LET top == HeapMin(priority_queue)
        current_distance == top[1]
        current_node == top[2]
        rest == priority_queue \ {top}
    IN  IF current_node \in visited
        THEN DijkstraLoop(graph, rest, visited, distances, previous)
        ELSE
          LET better == Improved(graph, distances, current_node, current_distance)
              edges == Get(graph, current_node, EmptyDict)
              via(n) == Plus(current_distance, edges[n])
              new_distances ==
                [n \in DOMAIN distances \cup better |->
                   IF n \in better THEN via(n) ELSE distances[n]]
              new_previous ==
                [n \in DOMAIN previous \cup better |->
                   IF n \in better THEN current_node ELSE previous[n]]
              pushed == {<<via(n), n>> : n \in better}
          IN  DijkstraLoop(graph, rest \cup pushed, visited \cup {current_node},
                           new_distances, new_previous)

\* The path of _first_hop before path.reverse(): destination first.
RECURSIVE BackPath(_, _, _)
BackPath(previous, current, path) ==
  IF current = None THEN path
  ELSE BackPath(previous, Get(previous, current, None), Append(path, current))

\* The node before the destination on the path, instead of the node after the
\* start.
LastHop(previous, destination) ==
  LET path == BackPath(previous, destination, <<>>)
  IN  IF Len(path) < 2 THEN None ELSE path[2]

\* _first_hop(previous, destination)
FirstHop(previous, destination) ==
  LET path == BackPath(previous, destination, <<>>)
  IN  IF Len(path) < 2 THEN None ELSE path[Len(path) - 1]

\* calculate_shortest_paths(graph, start_node): destination -> next hop.
calculate_shortest_paths(graph, start_node) ==
  IF start_node \notin DOMAIN graph THEN EmptyDict
  ELSE
    LET distances == [n \in DOMAIN graph |-> IF n = start_node THEN 0 ELSE Inf]
        previous0 == [n \in DOMAIN graph |-> None]
        previous ==
          DijkstraLoop(graph, {<<0, start_node>>}, {}, distances, previous0)
        reached ==
          { destination \in DOMAIN graph \ {start_node} :
              FirstHop(previous, destination) /= None }
    IN  [destination \in reached |-> FirstHop(previous, destination)]

\* ------------------------------------------------------------------------
\* Link cost (OSPFGamingDaemon._calculate_cost)
\* ------------------------------------------------------------------------

weight_latency == 25

weight_jitter == 35

weight_loss == 30

weight_bandwidth == 10

latency_max_ms == 100

jitter_max_ms == 20

bandwidth_ref_mbps == 1000

Min(a, b) == IF a < b THEN a ELSE b

Max(a, b) == IF a > b THEN a ELSE b

\* min(1.0, max(0.0, value / ceiling)), in thousandths.
Norm(value, ceiling) == Min(1000, Max(0, (1000 * value) \div ceiling))

\* "weights_percent" of the config when it has no such entry.
DefaultWeights ==
  [latency |-> weight_latency, jitter |-> weight_jitter,
   loss |-> weight_loss, bandwidth |-> weight_bandwidth]

\* _calculate_cost(latency, jitter, loss, bandwidth) of a daemon whose
\* weight_latency, weight_jitter, weight_loss and weight_bandwidth are those
\* of `weights`, in thousandths.  A bandwidth of None is written 0.
CostWith(weights, latency, jitter, loss, bandwidth) ==
  IF latency = Inf \/ jitter = Inf \/ loss >= 100 THEN Inf
  ELSE
    LET lat_norm == Norm(latency, latency_max_ms)
        jit_norm == Norm(jitter, jitter_max_ms)
        loss_norm == Norm(loss, 100)
        bw_norm ==
          IF bandwidth /= 0 /\ bandwidth > 0
          THEN 1000 - Norm(bandwidth, bandwidth_ref_mbps)
          ELSE 1000
    IN  lat_norm * weights.latency + jit_norm * weights.jitter
          + loss_norm * weights.loss + bw_norm * weights.bandwidth

\* _calculate_cost(latency, jitter, loss, bandwidth), in thousandths.
calculate_cost(latency, jitter, loss, bandwidth) ==
  CostWith(DefaultWeights, latency, jitter, loss, bandwidth)

\* min(value / bound, 1.0), in thousandths; 1.0 when value is not finite.
Term(value, bound) ==
  IF value = Inf THEN 1000 ELSE Min((1000 * value) \div bound, 1000)

\* compute_qos_cost(metrics, weights, bounds) of src/metrics.py, in
\* thousandths: round(score * 100.0, 3), rounded here to the nearest
\* thousandth with a half going up.
compute_qos_cost(metrics, weights, bounds) ==
  LET weight_sum ==
        weights.latency + weights.jitter + weights.loss + weights.bandwidth
      latency_term == Term(metrics.latency, bounds.latency_ms)
      jitter_term == Term(metrics.jitter, bounds.jitter_ms)
      loss_term == Term(metrics.loss, bounds.loss_percent)
      bandwidth_term ==
        IF metrics.bandwidth = 0 \/ metrics.bandwidth <= 0 THEN 1000
        ELSE 1000 - Term(metrics.bandwidth, bounds.bandwidth_mbps)
      weighted ==
        weights.latency * latency_term + weights.jitter * jitter_term
          + weights.loss * loss_term + weights.bandwidth * bandwidth_term
  IN  IF weight_sum <= 0 THEN 100 * 1000
      ELSE (100 * weighted + weight_sum \div 2) \div weight_sum

\* ------------------------------------------------------------------------
\* Initial state (OSPFGamingDaemon.__init__)
\* ------------------------------------------------------------------------

\* The local links as a self LSA is built from them: the own link vector and
\* the metrics of every neighbour.
LocalLinks ==
  [links |-> Get(topology_graph, router_id, EmptyDict),
   metrics |-> [n \in NeighborIds |-> neighbors[n].metrics]]

InitialNeighbor(n) ==
  [last_hello |-> 0,
   metrics |-> [latency |-> Inf, jitter |-> Inf, loss |-> 100,
                bandwidth |-> neighbor_settings[n].bandwidth,
                cost |-> NoCost]]

\* The daemon as __init__ leaves it.
Constructed ==
  /\ config \in [dead_interval : ConfigDeadIntervals]
  /\ now = Epoch
  /\ neighbors = [n \in NeighborIds |-> InitialNeighbor(n)]
  /\ topology_graph = [r \in {router_id} |-> EmptyDict]
  /\ topology_keys = <<router_id>>
  /\ lsdb_prefixes = [r \in {router_id} |-> local_prefixes]
  /\ lsa_versions = EmptyDict
  /\ routing_table = EmptyDict
  /\ installed_routes = EmptyDict
  /\ fib = EmptyDict
  /\ own_seqnum = 0
  /\ pc = [w \in Threads |->
            CASE w = "listener" -> "recv"
              [] w = "main" -> "serving"
              [] OTHER -> "idle"]
  /\ new_routing_table = [w \in Workers |-> EmptyDict]
  /\ desired_prefixes = [w \in Workers |-> EmptyDict]
  /\ message = NoMessage
  /\ source_ip = None
  /\ need_reflood = FALSE
  /\ probe_index = 0
  /\ sends = {}
  /\ ip_failed = FALSE
  /\ published = LocalLinks
  /\ dropped = {}
  /\ last = [op |-> "init"]

\* Nothing of the separate studies is in progress.
Apart ==
  /\ state_lock = None
  /\ position = EmptyDict
  /\ replay = None
  /\ spf_run = None
  /\ cost_run = None
  /\ network = None

Init == env \in Environments /\ Constructed /\ Apart

\* ------------------------------------------------------------------------
\* Time and the hello thread
\* ------------------------------------------------------------------------

\* Time passes (the sleeps of the loops, the blocking calls).
Tick ==
  /\ \E t \in env.instants : t > now /\ now' = t
  /\ sends' = {}
  /\ last' = [op |-> "tick"]
  /\ UNCHANGED <<ip_failed, published, dropped, env, apart, config, lsdb, neighbors,
                 routes, own_seqnum, pc, new_routing_table, desired_prefixes,
                 lsa_locals, probe_index>>

\* _send_message(neighbor_id, message) for each of the ids given.
Datagrams(ids, msg) == {[to |-> n, msg |-> msg] : n \in ids}

\* One iteration of _hello_loop.
HelloLoop ==
  /\ pc["hello"] = "idle"
  /\ running
  /\ sends' = Datagrams(NeighborIds, [type |-> "hello", router_id |-> router_id])
  /\ last' = [op |-> "hello_loop"]
  /\ UNCHANGED <<ip_failed, published, dropped, env, apart, config, now, lsdb,
                 neighbors, routes, own_seqnum, pc, new_routing_table,
                 desired_prefixes, lsa_locals, probe_index>>

\* ------------------------------------------------------------------------
\* The listener thread: _process_hello
\* ------------------------------------------------------------------------

\* A comparison that turns away only the router's own Hellos; ids that are not
\* configured neighbours get through to line 230.
HelloNotFromSelf(neighbor_id) == neighbor_id /= router_id

\* The early returns of _process_hello.
HelloAccepted(neighbor_id) ==
  neighbor_id /= router_id /\ neighbor_id \in DOMAIN neighbors

\* _process_hello: self.neighbors[neighbor_id]["last_hello"] = time.time()
\* under the lock; the subscript raises KeyError for an id that is not a key,
\* which ends _listen_loop.
ProcessHello(pkt) ==
  /\ pc["listener"] = "recv"
  /\ running
  /\ IF ~HelloAccepted(pkt.router_id)
     THEN UNCHANGED <<neighbors, pc>>
     ELSE IF pkt.router_id \in DOMAIN neighbors
     THEN /\ neighbors' = [neighbors EXCEPT ![pkt.router_id].last_hello = now]
          /\ pc' = pc
     ELSE /\ neighbors' = neighbors
          /\ pc' = [pc EXCEPT !["listener"] = "raised"]
  /\ sends' = {}
  /\ last' = [op |-> "process_hello", router_id |-> pkt.router_id]
  /\ UNCHANGED <<ip_failed, published, dropped, env, apart, config, now, lsdb,
                 routes, own_seqnum, new_routing_table, desired_prefixes,
                 lsa_locals, probe_index>>

\* ------------------------------------------------------------------------
\* The listener thread: _process_lsa
\* ------------------------------------------------------------------------

\* self.lsa_versions.get(origin, -1)
StoredSeq(origin) == Get(lsa_versions, origin, 0 - 1)

\* A comparison that lets through every LSA but an exact duplicate, older
\* ones included; the monotonicity of the stored seq rests on line 246 not
\* being this.
IsDifferent(seqnum, current_seq) == seqnum /= current_seq

\* A comparison that lets through duplicates as well; the LSDB being left
\* alone by a duplicate rests on line 246 not being this.
IsNewerOrEqual(seqnum, current_seq) == seqnum >= current_seq

\* Line 246 negated: the LSA is newer than what is stored.
IsNewer(seqnum, current_seq) == ~(seqnum <= current_seq)

\* Lines 258-264: update with the announced links, then drop the others.
AppliedLinks(before_links, new_links) ==
  LET updated ==
        [k \in DOMAIN before_links \cup DOMAIN new_links |->
           IF k \in DOMAIN new_links THEN new_links[k] ELSE before_links[k]]
  IN  [k \in {x \in DOMAIN updated : x \in DOMAIN new_links} |-> updated[k]]

\* {p for p in prefixes if isinstance(p, str)}
StringPrefixes(prefixes) == {p.v : p \in {q \in prefixes : q.str}}

\* Line 273: whether the announced prefixes replace the stored ones.
ReplacesPrefixes(new_prefixes, old_prefixes) ==
  new_prefixes /= {} /\ new_prefixes /= old_prefixes

\* A handler that forwards whatever hop count is left.
ForwardsWithoutHops(reflood, hops) == reflood

\* Line 282: whether the handler forwards the LSA.
Forwards(reflood, hops) == reflood /\ hops > 0

\* Line 285: the neighbours an LSA from `origin` is forwarded to.
RefloodTargets(origin, src) == {n \in NeighborIds : n /= origin}

\* A handler that takes the LSA of a neighbour for a sign of life, as a Hello
\* is, and does nothing else with it.
LsaTakenAsHello(pkt, src) ==
  /\ pc["listener"] = "recv"
  /\ running
  /\ pkt.router_id \in DOMAIN neighbors
  /\ neighbors' = [neighbors EXCEPT ![pkt.router_id].last_hello = now]
  /\ sends' = {}
  /\ last' = [op |-> "process_lsa", msg |-> pkt]
  /\ UNCHANGED <<ip_failed, published, dropped, env, apart, config, now, lsdb,
                 routes, own_seqnum, pc, new_routing_table, desired_prefixes,
                 lsa_locals, probe_index>>

\* The block of _process_lsa under the lock, and where the handler goes next.
ProcessLsa(pkt, src) ==
  LET origin == pkt.router_id
      before_links == Get(topology_graph, origin, EmptyDict)
      after_links == AppliedLinks(before_links, pkt.neighbors)
      old_prefixes == Get(lsdb_prefixes, origin, {})
      new_prefixes == StringPrefixes(pkt.prefixes)
      links_changed == after_links /= before_links
      prefixes_changed == ReplacesPrefixes(new_prefixes, old_prefixes)
      changed == links_changed \/ prefixes_changed
  IN  /\ pc["listener"] = "recv"
      /\ running
      /\ sends' = {}
      /\ last' = [op |-> "process_lsa", msg |-> pkt]
      /\ IF ~IsNewer(pkt.seqnum, StoredSeq(origin))
         THEN UNCHANGED <<lsdb, pc, lsa_locals>>
         ELSE /\ lsa_versions' = Put(lsa_versions, origin, pkt.seqnum)
              /\ topology_graph' = Put(topology_graph, origin, after_links)
              /\ topology_keys' = Touch(topology_keys, origin)
              /\ lsdb_prefixes' =
                   IF prefixes_changed
                   THEN Put(lsdb_prefixes, origin, new_prefixes)
                   ELSE lsdb_prefixes
              /\ IF changed
                 THEN /\ pc' = [pc EXCEPT !["listener"] = "snapshot"]
                      /\ message' = pkt
                      /\ source_ip' = src
                      /\ need_reflood' = TRUE
                 ELSE UNCHANGED <<pc, lsa_locals>>
      /\ UNCHANGED <<ip_failed, published, dropped, env, apart, config, now,
                     neighbors, routes, own_seqnum, new_routing_table,
                     desired_prefixes, probe_index>>

\* The strings that int() and float() accept, with their values.
Numerals == [text \in {"0", "1"} |-> IF text = "0" THEN 0 ELSE 1]

\* Whether int(value) / float(value) returns, rather than raising ValueError.
Converts(value) == value.json = "number" \/ value.value \in DOMAIN Numerals

\* int(value) / float(value) for a value that converts.
ToNumber(value) ==
  IF value.json = "number" THEN value.value ELSE Numerals[value.value]

\* The message as _process_lsa sees it once seqnum, hops and the link costs
\* went through int() and float().
Converted(m) ==
  [m EXCEPT !.seqnum = ToNumber(m.seqnum), !.hops = ToNumber(m.hops),
            !.neighbors = [k \in DOMAIN m.neighbors |->
                             ToNumber(m.neighbors[k])]]

\* The listener is done with a datagram that no handler took to the end: it
\* goes on to the next (`continue`, `return`) or an exception that
\* _listen_loop does not catch ends the thread.
Abandoned(datagram, listener_pc) ==
  /\ pc' = [pc EXCEPT !["listener"] = listener_pc]
  /\ sends' = {}
  /\ last' = [op |-> "process_datagram", datagram |-> datagram]
  /\ UNCHANGED <<ip_failed, published, dropped, env, apart, config, now,
                 neighbors, routes, own_seqnum, new_routing_table,
                 desired_prefixes, lsa_locals, probe_index>>

\* Lines 168-186 and 233-256 for a datagram off the socket.
\*  - payload.decode raises UnicodeDecodeError, which is not caught;
\*  - json.loads raises JSONDecodeError: logged, `continue`;
\*  - message.get on a value that is not a dict raises AttributeError;
\*  - int() of seqnum or hops raises ValueError before anything is written;
\*  - float() of a link cost raises ValueError at line 256, after the seqnum
\*    test and after lines 249-253 stored the seqnum and created the origin's
\*    link vector;
\*  - otherwise _process_lsa runs on the converted values.
ProcessDatagram(datagram, src) ==
  /\ pc["listener"] = "recv"
  /\ running
  /\ IF datagram.form = "text"
     THEN Abandoned(datagram, "recv") /\ UNCHANGED lsdb
     ELSE IF datagram.form \in {"bytes", "array"}
     THEN Abandoned(datagram, "raised") /\ UNCHANGED lsdb
     ELSE
       LET m == datagram.value
           origin == m.router_id
       IN  IF ~Converts(m.seqnum) \/ ~Converts(m.hops)
           THEN Abandoned(datagram, "raised") /\ UNCHANGED lsdb
           ELSE IF \A k \in DOMAIN m.neighbors : Converts(m.neighbors[k])
           THEN ProcessLsa(Converted(m), src)
           ELSE IF ~IsNewer(ToNumber(m.seqnum), StoredSeq(origin))
           THEN Abandoned(datagram, "recv") /\ UNCHANGED lsdb
           ELSE /\ Abandoned(datagram, "raised")
                /\ lsa_versions' =
                     Put(lsa_versions, origin, ToNumber(m.seqnum))
                /\ topology_graph' =
                     Put(topology_graph, origin,
                         Get(topology_graph, origin, EmptyDict))
                /\ topology_keys' = Touch(topology_keys, origin)
                /\ lsdb_prefixes' = lsdb_prefixes

\* Lines 282-286: forward the LSA with one hop less, or return.
Reflood ==
  /\ pc["listener"] = "reflood"
  /\ sends' =
       IF Forwards(need_reflood, message.hops)
       THEN Datagrams(RefloodTargets(message.router_id, source_ip),
                      [message EXCEPT !.hops = message.hops - 1])
       ELSE {}
  /\ last' = [op |-> "reflood", msg |-> message, src |-> source_ip]
  /\ pc' = [pc EXCEPT !["listener"] = "recv"]
  /\ message' = NoMessage
  /\ source_ip' = None
  /\ need_reflood' = FALSE
  /\ UNCHANGED <<ip_failed, published, dropped, env, apart, config, now, lsdb,
                 neighbors, routes, own_seqnum, new_routing_table,
                 desired_prefixes, probe_index>>

\* ------------------------------------------------------------------------
\* Kernel routes (_synchronise_kernel_routes, src/route_manager.py)
\* ------------------------------------------------------------------------

\* dict.get(prefix) of a prefix with no next hop (None).
NoIp == <<>>

\* _resolve_next_hop_ip(next_hop_id)
resolve_next_hop_ip(next_hop_id) ==
  IF next_hop_id \in DOMAIN neighbors
  THEN neighbor_settings[next_hop_id].ip
  ELSE NoIp

\* _resolve_router_prefixes(router): the LSDB first, then the /24 of the link.
resolve_router_prefixes(router) ==
  IF router = router_id THEN local_prefixes
  ELSE IF Get(lsdb_prefixes, router, {}) /= {} THEN lsdb_prefixes[router]
  ELSE IF router \in DOMAIN neighbor_settings
       THEN {Subnet24(neighbor_settings[router].ip)}
       ELSE {}

\* A test that lets every prefix through, the local ones included.
InstallableAlways(prefix) == prefix = prefix

\* Line 418: a prefix of this router gets no route.
Installable(prefix) == prefix \notin local_prefixes

\* Lines 408-420 for the destinations keys[i..]: a later destination that
\* announces the same prefix overwrites the next hop of an earlier one.
RECURSIVE DesiredFrom(_, _, _, _)
DesiredFrom(new_routes, keys, i, so_far) ==
  IF i > Len(keys) THEN so_far
  ELSE
    LET destination == keys[i]
        next_hop_ip ==
          IF destination \in DOMAIN new_routes
          THEN resolve_next_hop_ip(new_routes[destination])
          ELSE NoIp
        announced ==
          IF destination = router_id \/ next_hop_ip = NoIp THEN {}
          ELSE {p \in resolve_router_prefixes(destination) : Installable(p)}
        next ==
          [p \in DOMAIN so_far \cup announced |->
             IF p \in announced THEN next_hop_ip ELSE so_far[p]]
    IN  DesiredFrom(new_routes, keys, i + 1, next)

\* desired_prefixes of _synchronise_kernel_routes(new_routes).
DesiredPrefixes(new_routes) ==
  DesiredFrom(new_routes, topology_keys, 1, EmptyDict)

\* A test that never finds a prefix up to date.
NeverUpToDate(current_next_hop, next_hop_ip) ==
  current_next_hop /= current_next_hop

\* Line 425: the prefix already has this next hop, nothing to do.
UpToDate(current_next_hop, next_hop_ip) == current_next_hop = next_hop_ip

\* Lines 423-434 for one desired prefix: what installed_routes holds for it
\* afterwards.  add_route raises when the ip command fails.
InstalledAfterAdd(current_next_hop, next_hop_ip, add_failed) ==
  IF UpToDate(current_next_hop, next_hop_ip) \/ add_failed
  THEN current_next_hop
  ELSE next_hop_ip

\* The kernel's next hop for one desired prefix afterwards: delete_route
\* swallows a failed ip command, add_route is "ip route replace".
FibAfterAdd(kernel, current_next_hop, next_hop_ip, add_failed, del_failed) ==
  IF UpToDate(current_next_hop, next_hop_ip) THEN kernel
  ELSE IF ~add_failed THEN next_hop_ip
  ELSE IF current_next_hop /= NoIp /\ ~del_failed THEN NoIp
  ELSE kernel

\* _remove_installed_route / line 442: the entry is popped whether or not the
\* ip command worked, since delete_route never raises.
InstalledAfterRemove(current_next_hop, del_failed) == NoIp

FibAfterRemove(prefix, kernel, del_failed) ==
  IF Installable(prefix) /\ ~del_failed THEN NoIp ELSE kernel

\* A dict from a total map in which NoIp stands for "no entry".
Compact(f) == [p \in {q \in DOMAIN f : f[q] /= NoIp} |-> f[p]]

\* Lines 423-434, the loop over desired_prefixes: installed_routes afterwards.
AddInstalled(desired, add_fails) ==
  Compact([p \in DOMAIN desired \cup DOMAIN installed_routes |->
    IF p \in DOMAIN desired
    THEN InstalledAfterAdd(Get(installed_routes, p, NoIp), desired[p],
                           p \in add_fails)
    ELSE installed_routes[p]])

\* The kernel's routes after the loop over desired_prefixes.
AddFib(desired, add_fails, del_fails) ==
  Compact([p \in DOMAIN desired \cup DOMAIN fib |->
    IF p \in DOMAIN desired
    THEN FibAfterAdd(Get(fib, p, NoIp), Get(installed_routes, p, NoIp),
                     desired[p], p \in add_fails, p \in del_fails)
    ELSE fib[p]])

\* Lines 437-444, the loop over list(installed_routes.keys()):
\* installed_routes afterwards.
RemoveInstalled(desired, del_fails) ==
  Compact([p \in DOMAIN installed_routes |->
    IF p \in DOMAIN desired
    THEN installed_routes[p]
    ELSE InstalledAfterRemove(installed_routes[p], p \in del_fails)])

\* The kernel's routes after the loop over list(installed_routes.keys()).
RemoveFib(desired, del_fails) ==
  Compact([p \in DOMAIN installed_routes \cup DOMAIN fib |->
    IF p \in DOMAIN installed_routes \ DOMAIN desired
    THEN FibAfterRemove(p, Get(fib, p, NoIp), p \in del_fails)
    ELSE Get(fib, p, NoIp)])

\* The prefixes for which the loop over desired_prefixes calls add_route, and
\* those for which it calls delete_route first (lines 428-430).
AddsIssued(desired) ==
  { p \in DOMAIN desired :
      ~UpToDate(Get(installed_routes, p, NoIp), desired[p]) }

DeletesBeforeAdd(desired) ==
  { p \in AddsIssued(desired) : Get(installed_routes, p, NoIp) /= NoIp }

\* The prefixes for which the second loop calls delete_route (lines 438-444,
\* 450).
DeletesIssued(desired) ==
  { p \in DOMAIN installed_routes \ DOMAIN desired : Installable(p) }

\* ------------------------------------------------------------------------
\* _recalculate_routes, as run by each thread
\* ------------------------------------------------------------------------

\* Where a thread goes when _recalculate_routes returns.
AfterRecalculate(w) ==
  CASE w = "listener" -> "reflood"
    [] w = "metrics" -> "idle"
    [] w = "dead" -> "broadcast"

\* Lines 388-391: deep copy under the lock, then SPF on the copy.
RecalculateSnapshot(w) ==
  /\ pc[w] = "snapshot"
  /\ new_routing_table' =
       [new_routing_table EXCEPT
          ![w] = calculate_shortest_paths(topology_graph, router_id)]
  /\ pc' = [pc EXCEPT ![w] = "sync"]
  /\ sends' = {}
  /\ last' = [op |-> "snapshot", worker |-> w]
  /\ UNCHANGED <<ip_failed, desired_prefixes, published, dropped, env, apart, config,
                 now, lsdb, neighbors, routes, own_seqnum, lsa_locals,
                 probe_index>>

\* Line 392, first half of _synchronise_kernel_routes (lines 405-434, run
\* without the lock): desired_prefixes is built and each desired prefix is
\* installed, each ip command working or failing.
SynchroniseAdd(w) ==
  LET desired == DesiredPrefixes(new_routing_table[w])
  IN  /\ pc[w] = "sync"
      /\ desired_prefixes' = [desired_prefixes EXCEPT ![w] = desired]
      /\ \E add_fails \in SUBSET AddsIssued(desired),
            del_fails \in SUBSET DeletesBeforeAdd(desired) :
           /\ installed_routes' = AddInstalled(desired, add_fails)
           /\ fib' = AddFib(desired, add_fails, del_fails)
           /\ last' = [op |-> "sync_add", worker |-> w,
                       adds |-> AddsIssued(desired),
                       deletes |-> DeletesBeforeAdd(desired),
                       failed |-> add_fails \cup del_fails,
                       failed_adds |-> add_fails]
           /\ ip_failed' = (ip_failed \/ add_fails \cup del_fails /= {})
      /\ pc' = [pc EXCEPT ![w] = "remove"]
      /\ sends' = {}
      /\ UNCHANGED <<published, dropped, env, apart, config, now, lsdb, neighbors,
                     routing_table, own_seqnum, new_routing_table, lsa_locals,
                     probe_index>>

\* Second half of _synchronise_kernel_routes (lines 437-444, run without the
\* lock): the installed prefixes that this thread does not desire are removed.
SynchroniseRemove(w) ==
  LET desired == desired_prefixes[w]
  IN  /\ pc[w] = "remove"
      /\ \E del_fails \in SUBSET DeletesIssued(desired) :
           /\ installed_routes' = RemoveInstalled(desired, del_fails)
           /\ fib' = RemoveFib(desired, del_fails)
           /\ last' = [op |-> "sync", worker |-> w, desired |-> desired,
                       deletes |-> DeletesIssued(desired),
                       failed |-> del_fails]
           /\ ip_failed' = (ip_failed \/ del_fails /= {})
      /\ desired_prefixes' = [desired_prefixes EXCEPT ![w] = EmptyDict]
      /\ pc' = [pc EXCEPT ![w] = "apply"]
      /\ sends' = {}
      /\ UNCHANGED <<published, dropped, env, apart, config, now, lsdb, neighbors,
                     routing_table, own_seqnum, new_routing_table, lsa_locals,
                     probe_index>>

\* Lines 393-394: publish the table under the lock.
RecalculateApply(w) ==
  /\ pc[w] = "apply"
  /\ routing_table' = new_routing_table[w]
  /\ new_routing_table' = [new_routing_table EXCEPT ![w] = EmptyDict]
  /\ pc' = [pc EXCEPT ![w] = AfterRecalculate(w)]
  /\ sends' = {}
  /\ last' = [op |-> "apply", worker |-> w]
  /\ UNCHANGED <<ip_failed, desired_prefixes, published, dropped, env, apart, config,
                 now, lsdb, neighbors, installed_routes, fib, own_seqnum,
                 lsa_locals, probe_index>>

\* ------------------------------------------------------------------------
\* _broadcast_lsa, as run by the metric and the dead-interval thread
\* ------------------------------------------------------------------------

\* Line 373: list(lsdb_prefixes.get(router_id, set())) or list(local_prefixes)
OwnPrefixes ==
  IF Get(lsdb_prefixes, router_id, {}) /= {}
  THEN lsdb_prefixes[router_id]
  ELSE local_prefixes

\* A self LSA that carries the link vector of the previous one.
StaleLsa(seqnum) ==
  [type |-> "lsa",
   router_id |-> router_id,
   neighbors |-> published.links,
   seqnum |-> seqnum,
   prefixes |-> {Str(p) : p \in OwnPrefixes},
   hops |-> LSA_TTL_HOPS]

\* Lines 372-383: the self LSA built under the lock, with the next seqnum.
OwnLsa(seqnum) ==
  [type |-> "lsa",
   router_id |-> router_id,
   neighbors |-> Get(topology_graph, router_id, EmptyDict),
   seqnum |-> seqnum,
   prefixes |-> {Str(p) : p \in OwnPrefixes},
   hops |-> LSA_TTL_HOPS]

\* Where a thread goes when _broadcast_lsa returns.
AfterBroadcast(w) ==
  CASE w = "metrics" -> "snapshot"
    [] w = "dead" -> "idle"

BroadcastLsa(w) ==
  /\ pc[w] = "broadcast"
  /\ own_seqnum' = own_seqnum + 1
  /\ sends' = Datagrams(NeighborIds, OwnLsa(own_seqnum + 1))
  /\ pc' = [pc EXCEPT ![w] = AfterBroadcast(w)]
  /\ published' = LocalLinks
  /\ ip_failed' = ip_failed
  /\ dropped' = IF w = "dead" THEN {} ELSE dropped
  /\ last' = [op |-> "broadcast", worker |-> w, previous |-> published,
              dropped |-> IF w = "dead" THEN dropped ELSE {}]
  /\ UNCHANGED <<env, apart, config, now, lsdb, neighbors, routes, new_routing_table,
                 desired_prefixes, lsa_locals, probe_index>>

\* The threads that are in a pass and have not sent its self LSA yet.
Pending ==
  { w \in {"metrics", "dead"} :
      \/ pc[w] = "broadcast"
      \/ w = "metrics" /\ pc[w] = "update"
      \/ w = "dead" /\ pc[w] \in {"snapshot", "sync", "remove", "apply"} }

\* A pass may start while the self LSAs it leads to stay within MaxOwnSeq.
CanStartPass == own_seqnum + Cardinality(Pending) < env.passes

\* ------------------------------------------------------------------------
\* The metric thread: _update_link_metrics
\* ------------------------------------------------------------------------

\* Lines 293-294: neighbors_copy = dict(self.neighbors) under the lock.
CopyNeighbors ==
  /\ pc["metrics"] = "idle"
  /\ running
  /\ CanStartPass
  /\ pc' = [pc EXCEPT !["metrics"] = "update"]
  /\ probe_index' = 1
  /\ sends' = {}
  /\ last' = [op |-> "copy_neighbors"]
  /\ UNCHANGED <<ip_failed, published, dropped, env, apart, config, now, lsdb,
                 neighbors, routes, own_seqnum, new_routing_table,
                 desired_prefixes, lsa_locals>>

\* Lines 323-324: the edge to the neighbour and the edge back, both set to
\* the measured cost.
WithMeasuredLink(graph, neighbor_id, cost) ==
  LET own == Put(Get(graph, router_id, EmptyDict), neighbor_id, cost)
      g1 == Put(graph, router_id, own)
      back == Put(Get(g1, neighbor_id, EmptyDict), router_id, cost)
  IN  Put(g1, neighbor_id, back)

\* Lines 296-324 for one neighbour: the probe, the cost, and the block under
\* the lock that stores them.
UpdateLinkMetrics(sample) ==
  LET neighbor_id == NeighborOrder[probe_index]
      bandwidth == neighbors[neighbor_id].metrics.bandwidth
      cost == calculate_cost(sample.latency, sample.jitter, sample.loss,
                             bandwidth)
  IN  /\ pc["metrics"] = "update"
      /\ sample \in env.samples[neighbor_id]
      /\ neighbors' =
           [neighbors EXCEPT
              ![neighbor_id].metrics =
                 [latency |-> sample.latency, jitter |-> sample.jitter,
                  loss |-> sample.loss, bandwidth |-> bandwidth,
                  cost |-> cost]]
      /\ topology_graph' = WithMeasuredLink(topology_graph, neighbor_id, cost)
      /\ topology_keys' = Touch(Touch(topology_keys, router_id), neighbor_id)
      /\ IF probe_index < Len(NeighborOrder)
         THEN /\ probe_index' = probe_index + 1
              /\ pc' = pc
         ELSE /\ probe_index' = 0
              /\ pc' = [pc EXCEPT !["metrics"] = "broadcast"]
      /\ sends' = {}
      /\ last' = [op |-> "update_link_metrics", neighbor |-> neighbor_id]
      /\ UNCHANGED <<ip_failed, published, dropped, env, apart, config, now,
                     lsdb_prefixes, lsa_versions, routes, own_seqnum,
                     new_routing_table, desired_prefixes, lsa_locals>>

\* ------------------------------------------------------------------------
\* The dead-interval thread: _dead_interval_loop
\* ------------------------------------------------------------------------

\* Line 202: the neighbour's last Hello is too old.
Expired(last_hello) == now - last_hello > Tenths(DEAD_INTERVAL)

ExpiredNeighbors == {n \in NeighborIds : Expired(neighbors[n].last_hello)}

\* Lines 205-210 for the neighbours in `gone`: both edges are deleted.
WithoutLinks(graph, gone) ==
  [r \in DOMAIN graph |->
     IF r = router_id
     THEN [k \in DOMAIN graph[r] \ gone |-> graph[r][k]]
     ELSE IF r \in gone
     THEN [k \in DOMAIN graph[r] \ {router_id} |-> graph[r][k]]
     ELSE graph[r]]

\* Lines 198-210: the scan under the lock.
DeadScan ==
  LET gone == ExpiredNeighbors
      pruned == WithoutLinks(topology_graph, gone)
      removed_any == pruned /= topology_graph
  IN  /\ pc["dead"] = "idle"
      /\ running
      /\ removed_any => CanStartPass
      /\ neighbors' =
           [n \in NeighborIds |->
              IF n \in gone
              THEN [neighbors[n] EXCEPT !.metrics.cost = Inf]
              ELSE neighbors[n]]
      /\ topology_graph' = pruned
      /\ pc' = [pc EXCEPT !["dead"] = IF removed_any THEN "snapshot" ELSE "idle"]
      /\ sends' = {}
      /\ dropped' = gone \cap DOMAIN Get(topology_graph, router_id, EmptyDict)
      /\ published' = published
      /\ ip_failed' = ip_failed
      /\ last' = [op |-> "dead_scan"]
      /\ UNCHANGED <<env, apart, config, now, topology_keys, lsdb_prefixes,
                     lsa_versions, routes, own_seqnum, new_routing_table,
                     desired_prefixes, lsa_locals, probe_index>>

\* ------------------------------------------------------------------------
\* stop
\* ------------------------------------------------------------------------

\* Lines 145-146: the flag is cleared and the socket closed.  The loops of the
\* threads test the flag only before an iteration, so a thread that is in
\* one finishes it.
Stop ==
  /\ env.stops
  /\ running
  /\ pc' = [pc EXCEPT !["main"] = "joining"]
  /\ sends' = {}
  /\ last' = [op |-> "stop"]
  /\ UNCHANGED <<ip_failed, published, dropped, env, apart, config, now, lsdb,
                 neighbors, routes, own_seqnum, new_routing_table,
                 desired_prefixes, lsa_locals, probe_index>>

\* Where a thread of start() is between two iterations of its loop: asleep,
\* or in recvfrom for the listener.
Resting(t) == IF t = "listener" THEN "recv" ELSE "idle"

\* Lines 155, 166, 189 and 197: `while self._running.is_set()` is false, the
\* loop is left and the thread ends.  The listener's recvfrom ends with the
\* timeout of the socket or with the OSError of the closed socket (lines
\* 169-172), the other threads wake from their sleep.
LeaveLoop(t) ==
  /\ ~running
  /\ pc[t] = Resting(t)
  /\ pc' = [pc EXCEPT ![t] = "ended"]
  /\ sends' = {}
  /\ last' = [op |-> "leave_loop", thread |-> t]
  /\ UNCHANGED <<ip_failed, published, dropped, env, apart, config, now, lsdb,
                 neighbors, routes, own_seqnum, new_routing_table,
                 desired_prefixes, lsa_locals, probe_index>>

\* The kernel's routes after _flush_routes: delete_route is called for every
\* key of installed_routes and swallows a failed ip command.
FlushFib(del_fails) ==
  Compact([p \in DOMAIN installed_routes \cup DOMAIN fib |->
    IF p \in DOMAIN installed_routes \ del_fails
    THEN NoIp
    ELSE Get(fib, p, NoIp)])

\* Lines 147-149: each thread is joined for at most two seconds, whether or
\* not it has ended by then, and _flush_routes removes every installed route;
\* stop() returns.
FlushRoutes ==
  /\ pc["main"] = "joining"
  /\ \E del_fails \in SUBSET DOMAIN installed_routes :
       /\ installed_routes' =
            Compact([p \in DOMAIN installed_routes |->
              InstalledAfterRemove(installed_routes[p], p \in del_fails)])
       /\ fib' = FlushFib(del_fails)
       /\ last' = [op |-> "flush", deletes |-> DOMAIN installed_routes,
                   failed |-> del_fails]
       /\ ip_failed' = (ip_failed \/ del_fails /= {})
  /\ pc' = [pc EXCEPT !["main"] = "returned"]
  /\ sends' = {}
  /\ UNCHANGED <<published, dropped, env, apart, config, now, lsdb, neighbors,
                 routing_table, own_seqnum, new_routing_table,
                 desired_prefixes, lsa_locals, probe_index>>

\* ------------------------------------------------------------------------
\* Specification
\* ------------------------------------------------------------------------

Next ==
  \/ Tick
  \/ HelloLoop
  \/ \E id \in env.hellos : ProcessHello([type |-> "hello", router_id |-> id])
  \/ \E pkt \in env.lsas, src \in env.sources : ProcessLsa(pkt, src)
  \/ \E datagram \in env.datagrams, src \in env.sources :
       ProcessDatagram(datagram, src)
  \/ Reflood
  \/ \E w \in Workers : RecalculateSnapshot(w)
  \/ \E w \in Workers : SynchroniseAdd(w)
  \/ \E w \in Workers : SynchroniseRemove(w)
  \/ \E w \in Workers : RecalculateApply(w)
  \/ \E w \in Workers : BroadcastLsa(w)
  \/ CopyNeighbors
  \/ \E sample \in UNION {env.samples[n] : n \in NeighborIds} :
       UpdateLinkMetrics(sample)
  \/ DeadScan
  \/ Stop
  \/ \E t \in Workers \cup {"hello"} : LeaveLoop(t)
  \/ FlushRoutes

Spec == Init /\ [][Next]_vars

\* The steps a running thread takes on its own: the threads of start() are
\* scheduled, and the clock advances, whatever the network delivers.
PassStep ==
  \/ Reflood
  \/ \E w \in Workers : SynchroniseAdd(w)
  \/ \E w \in Workers : SynchroniseRemove(w)
  \/ \E w \in Workers : RecalculateApply(w)
  \/ \E w \in Workers : BroadcastLsa(w)
  \/ \E sample \in UNION {env.samples[n] : n \in NeighborIds} :
       UpdateLinkMetrics(sample)
  \/ \E t \in Workers \cup {"hello"} : LeaveLoop(t)

ThreadStep ==
  \/ Tick
  \/ \E w \in Workers : RecalculateSnapshot(w)
  \/ PassStep

FairSpec == Spec /\ WF_vars(ThreadStep)

\* ------------------------------------------------------------------------
\* Properties
\* ------------------------------------------------------------------------

\* The step just taken handled the inbound LSA last'.msg.
HandledLsa == last'.op = "process_lsa"

\* The handled LSA is newer than what was stored for its origin.
HandledNewer ==
  HandledLsa /\ last'.msg.seqnum > StoredSeq(last'.msg.router_id)

\* This router's own link vector.
OwnLinks == Get(topology_graph, router_id, EmptyDict)

\* C1: for every origin, the stored sequence number never decreases, whatever
\* step is taken (inbound LSA, metric pass, dead-neighbour pass); neither does
\* the sequence number of the self LSA.
C1_SeqNeverDecreases ==
  [][ /\ \A o \in Routers :
           Get(lsa_versions', o, 0 - 1) >= Get(lsa_versions, o, 0 - 1)
      /\ own_seqnum' >= own_seqnum ]_vars

\* C1 witness: an LSA older than the stored one has just been handled, after a
\* self LSA was published by a metric or dead-neighbour pass.
C1_Witness ==
  /\ last.op = "process_lsa"
  /\ last.msg.seqnum < StoredSeq(last.msg.router_id)
  /\ own_seqnum >= 1

\* C2: handling an inbound LSA whose seq is less than or equal to the stored
\* seq of its origin leaves the stored seq, link vector and prefix set of
\* every origin as they were.
C2_StaleLsaChangesNothing ==
  [][ HandledLsa /\ last'.msg.seqnum <= StoredSeq(last'.msg.router_id)
        => UNCHANGED <<lsa_versions, topology_graph, topology_keys,
                       lsdb_prefixes>> ]_vars

\* C2 witness: a duplicate (same seq as stored) has just been handled whose
\* links and prefixes differ from the stored ones.
C2_Witness ==
  /\ last.op = "process_lsa"
  /\ last.msg.seqnum = StoredSeq(last.msg.router_id)
  /\ last.msg.neighbors /= topology_graph[last.msg.router_id]
  /\ StringPrefixes(last.msg.prefixes) /= {}
  /\ StringPrefixes(last.msg.prefixes)
       /= Get(lsdb_prefixes, last.msg.router_id, {})

\* C3 as claimed: an inbound LSA whose origin is this router is discarded: it
\* changes neither the LSDB nor the routing table, and the handler returns
\* without recomputing routes or forwarding the LSA.
C3_SelfLsaDiscarded ==
  [][ HandledLsa /\ last'.msg.router_id = router_id
        => /\ UNCHANGED <<lsa_versions, topology_graph, lsdb_prefixes,
                          routing_table>>
           /\ pc'["listener"] = "recv" ]_vars

\* C4 as claimed: when an inbound LSA of another router with a seq greater
\* than the stored one is handled, the entry of its origin is replaced as a
\* whole: seq, links and prefixes are those of the payload, also when the
\* payload's prefix list is empty.
C4_AcceptedLsaReplacesEntry ==
  [][ HandledNewer /\ last'.msg.router_id /= router_id
        => /\ lsa_versions'[last'.msg.router_id] = last'.msg.seqnum
           /\ topology_graph'[last'.msg.router_id] = last'.msg.neighbors
           /\ Get(lsdb_prefixes', last'.msg.router_id, {})
                = StringPrefixes(last'.msg.prefixes) ]_vars

\* C5 as claimed: every inbound LSA of another router with a seq greater than
\* the stored one and hop budget left after the decrement is forwarded, to
\* every configured neighbour but the one it came from, with one hop less.
C5_AcceptedLsaIsReflooded ==
  [][ /\ HandledNewer /\ last'.msg.router_id /= router_id
           /\ last'.msg.hops - 1 > 0
        => pc'["listener"] /= "recv"
      /\ last'.op = "reflood" /\ last'.msg.hops - 1 > 0
        => sends' = Datagrams(NeighborIds \ {last'.src},
                              [last'.msg EXCEPT !.hops = last'.msg.hops - 1])
    ]_vars

\* C6 as claimed: a forwarded LSA is never sent back to the neighbour it came
\* from.
C6_SplitHorizon ==
  last.op = "reflood" => \A d \in sends : d.to /= last.src

\* C7 as claimed: an inbound LSA with hop count 1 is not forwarded to any
\* neighbour.
C7_LastHopNotReflooded ==
  last.op = "reflood" /\ last.msg.hops = 1 => sends = {}

\* The dead pass has marked neighbour n down.
MarkedDown(n) == neighbors[n].metrics.cost = Inf /\ n \notin DOMAIN OwnLinks

\* C8 as claimed: the dead pass marks down every neighbour whose last Hello
\* is older than the configured dead_interval.
C8_DeadAfterConfiguredInterval ==
  last.op = "dead_scan"
    => \A n \in NeighborIds :
         now - neighbors[n].last_hello > Tenths(config.dead_interval)
           => MarkedDown(n)

\* C9 as claimed: the self LSA that the dead pass publishes after it dropped
\* the link to a neighbour has the next seq and does not list that neighbour,
\* and the pass recomputes the routes.
C9_DeadPassPublishesWithoutNeighbor ==
  /\ last.op = "dead_scan" /\ dropped /= {} => pc["dead"] = "snapshot"
  /\ last.op = "broadcast" /\ last.worker = "dead"
       => \A d \in sends :
            /\ d.msg.seqnum = own_seqnum
            /\ DOMAIN d.msg.neighbors \cap last.dropped = {}

\* C10 as claimed: the own link vector has an edge to a neighbour only if a
\* Hello of that neighbour was received within the last dead interval.
C10_EdgeOnlyToLiveNeighbor ==
  \A n \in NeighborIds \cap DOMAIN OwnLinks :
    ~Expired(neighbors[n].last_hello)

\* The metrics stored for neighbour n are the all-unusable sample.
StoredUnusable(n) ==
  /\ neighbors[n].metrics.latency = Inf
  /\ neighbors[n].metrics.jitter = Inf
  /\ neighbors[n].metrics.loss = 100

\* C11 as claimed: once the metric pass has stored an all-unusable sample for
\* a neighbour, the cost toward it is infinite and the own link vector has no
\* edge to it.
C11_UnusableProbeRemovesEdge ==
  last.op = "update_link_metrics" /\ StoredUnusable(last.neighbor)
    => /\ neighbors[last.neighbor].metrics.cost = Inf
       /\ last.neighbor \notin DOMAIN OwnLinks

\* C12: a Hello whose router_id is this router's own id, or is not a
\* configured neighbour, changes no neighbour's last_hello and no other state
\* of the daemon.
C12_ForeignHelloDropped ==
  [][ last'.op = "process_hello" /\ last'.router_id \notin NeighborIds
        => UNCHANGED <<neighbors, lsa_versions, topology_graph, topology_keys,
                       lsdb_prefixes, routing_table, installed_routes, fib,
                       own_seqnum, pc, new_routing_table, desired_prefixes,
                       message, source_ip, need_reflood, probe_index>> ]_vars

\* C12 witness: a Hello of an unknown router has just been handled by a daemon
\* that holds LSAs and whose metric pass is under way.
C12_Witness ==
  /\ last.op = "process_hello"
  /\ last.router_id \notin NeighborIds \cup {router_id}
  /\ lsa_versions /= EmptyDict
  /\ pc["metrics"] /= "idle"

\* The daemon holds neighbour n to be up: the test of the dead pass (line
\* 202), the only adjacency test of the code, does not find its Hello too old.
HeldUp(n) == ~Expired(neighbors[n].last_hello)

\* C13 as claimed: every neighbour starts down, a Hello of a configured
\* neighbour sets its last_hello to the current time, and in every state a
\* neighbour is up if and only if its last Hello is within the configured
\* dead_interval of now.
C13_UpIffHelloWithinDeadInterval ==
  /\ last.op = "init" => \A n \in NeighborIds : ~HeldUp(n)
  /\ last.op = "process_hello" /\ last.router_id \in NeighborIds
       => neighbors[last.router_id].last_hello = now
  /\ \A n \in NeighborIds :
       HeldUp(n) <=>
         now - neighbors[n].last_hello <= Tenths(config.dead_interval)

\* C14 as claimed: a metric pass emits a self LSA only if the local links
\* changed since the last one: a pass that leaves the own link vector and the
\* latency, jitter, loss and cost of every neighbour as the previous self LSA
\* found them emits none.
C14_SelfLsaOnlyOnMaterialChange ==
  last.op = "broadcast" /\ last.worker = "metrics"
    => last.previous /= published

\* C15 as claimed: every emission of a self LSA increments the self seq by
\* exactly 1 and sends, to every configured neighbour, an LSA with that seq,
\* the current own link vector, the local prefix set and LSA_TTL_HOPS (8)
\* hops; so that no two self LSAs carry the same seq, whichever threads emit.
C15_SelfLsaEmission ==
  [][ last'.op = "broadcast"
        => /\ own_seqnum' = own_seqnum + 1
           /\ LSA_TTL_HOPS = 8
           /\ sends' =
                Datagrams(NeighborIds,
                          [type |-> "lsa",
                           router_id |-> router_id,
                           neighbors |-> OwnLinks,
                           seqnum |-> own_seqnum',
                           prefixes |-> {Str(p) : p \in local_prefixes},
                           hops |-> LSA_TTL_HOPS]) ]_vars

\* C16 as claimed: the entry of an origin other than this router that was
\* stored at the start, and so is older than the maximum age of 120 s once
\* the clock has reached LongAfter, is eventually removed from the LSDB unless
\* a newer LSA of that origin is accepted; the self entry is never removed.
C16_OldEntryEventuallyRemoved ==
  /\ [](router_id \in DOMAIN lsdb_prefixes /\ router_id \in DOMAIN topology_graph)
  /\ \A o \in Routers \ {router_id} : \A v \in 0..MaxSeq :
       (StoredSeq(o) = v /\ now < LongAfter)
         ~> (o \notin DOMAIN lsa_versions \/ StoredSeq(o) > v)

\* C17: in every state, no prefix of this router's local prefix set is a key
\* of installed_routes.
C17_NoLocalPrefixInstalled ==
  DOMAIN installed_routes \cap local_prefixes = {}

\* C17 witness: a reconciliation has just run while r2, reached through the
\* routing table, announces a local prefix together with the remote one, and
\* only the remote one is installed.
C17_Witness ==
  /\ last.op = "sync"
  /\ "r2" \in DOMAIN new_routing_table[last.worker]
  /\ Get(lsdb_prefixes, "r2", {}) \cap local_prefixes /= {}
  /\ RemotePrefix \in Get(lsdb_prefixes, "r2", {})
  /\ DOMAIN installed_routes = {RemotePrefix}

C19_InstalledIsLastDesired ==
  last.op = "sync" /\ ~ip_failed
    => DOMAIN installed_routes = DOMAIN last.desired

\* C20 as claimed: a prefix whose add_route failed has in installed_routes
\* what it had before (it is not recorded as installed), and a prefix whose
\* withdrawal failed in delete_route stays recorded with its next hop, so
\* that the next reconciliation finds the same work to do.
C20_FailedCommandLeavesRecord ==
  [][ /\ last'.op = "sync_add"
        => \A p \in last'.failed_adds :
             Get(installed_routes', p, NoIp) = Get(installed_routes, p, NoIp)
      /\ last'.op = "sync"
        => \A p \in last'.failed :
             Get(installed_routes', p, NoIp) = Get(installed_routes, p, NoIp)
    ]_vars

\* C21 as claimed: when a reconciliation completes, installed_routes maps a
\* prefix to a next hop if and only if the kernel holds the route to that
\* prefix via that next hop, also when an add_route failed after the
\* delete_route of the same prefix had worked.
C21_InstalledMirrorsFib ==
  last.op \in {"sync_add", "sync"} => installed_routes = fib

\* C21: a reconciliation in which add_route failed after the delete_route of
\* the same prefix had worked is reachable, and it leaves installed_routes
\* with the old next hop of a prefix the kernel no longer routes.
C21_AddFailedAfterDelete ==
  /\ last.op = "sync_add"
  /\ \E p \in last.failed_adds \cap last.deletes :
       p \in DOMAIN installed_routes /\ p \notin DOMAIN fib

\* C22 in the runs in which no ip command failed: once stop() has returned,
\* installed_routes is empty and the kernel holds none of the daemon's
\* routes, and no thread installs one afterwards.
C22_NothingInstalledAfterStop ==
  (pc["main"] = "returned" /\ ~ip_failed)
    => (installed_routes = EmptyDict /\ fib = EmptyDict)

\* ------------------------------------------------------------------------
\* Locking discipline: what each thread does with self._state_lock
\* ------------------------------------------------------------------------

\* The daemon's own variables, which the separate studies leave alone.
daemon ==
  <<env, config, now, neighbors, lsdb, routes, own_seqnum, pc,
    new_routing_table, desired_prefixes, lsa_locals, probe_index, sends,
    ip_failed, published, dropped, last>>

\* The threads of start(): the workers and the hello thread.
Loops == Workers \cup {"hello"}

\* One instruction of a thread, with the line it stands on: it enters or
\* leaves a `with self._state_lock` block, assigns to an attribute that the
\* threads share, or makes a call that can block.
Ins(op, what, line) == [op |-> op, what |-> what, line |-> line]

\* _recalculate_routes with _synchronise_kernel_routes and
\* _remove_installed_route.
RecalculateCode ==
  << Ins("acquire", "state_lock", 388), Ins("release", "state_lock", 389),
     Ins("call", "ip", 430), Ins("write", "installed_routes", 431),
     Ins("call", "ip", 450), Ins("write", "installed_routes", 454),
     Ins("acquire", "state_lock", 393), Ins("write", "routing_table", 394),
     Ins("release", "state_lock", 394) >>

\* _broadcast_lsa with the sendto of each neighbour inside the with block.
BroadcastHoldingLock ==
  << Ins("acquire", "state_lock", 371), Ins("write", "seqnum", 374),
     Ins("call", "sendto", 385), Ins("release", "state_lock", 383) >>

\* _broadcast_lsa
BroadcastCode ==
  << Ins("acquire", "state_lock", 371), Ins("write", "seqnum", 374),
     Ins("release", "state_lock", 383), Ins("call", "sendto", 385) >>

\* The body of each thread's loop: _hello_loop; _listen_loop with
\* _process_hello and _process_lsa; _metric_loop with _update_link_metrics;
\* _dead_interval_loop.
Code(t) ==
  CASE t = "hello" -> << Ins("call", "sendto", 162) >>
    [] t = "listener" ->
         << Ins("call", "recvfrom", 168),
            Ins("acquire", "state_lock", 228), Ins("write", "last_hello", 229),
            Ins("release", "state_lock", 231),
            Ins("acquire", "state_lock", 244),
            Ins("write", "lsa_versions", 249),
            Ins("write", "topology_graph", 257),
            Ins("write", "lsdb_prefixes", 274),
            Ins("release", "state_lock", 276) >>
         \o RecalculateCode \o << Ins("call", "sendto", 286) >>
    [] t = "metrics" ->
         << Ins("acquire", "state_lock", 293), Ins("release", "state_lock", 294),
            Ins("call", "ping", 301), Ins("write", "metrics", 307),
            Ins("acquire", "state_lock", 311), Ins("write", "metrics", 314),
            Ins("write", "topology_graph", 323),
            Ins("release", "state_lock", 324) >>
         \o BroadcastCode \o RecalculateCode
    [] t = "dead" ->
         << Ins("acquire", "state_lock", 200), Ins("write", "metrics", 203),
            Ins("write", "topology_graph", 206),
            Ins("release", "state_lock", 210) >>
         \o RecalculateCode \o BroadcastCode

\* The instruction a thread is at.
Current(t) == Code(t)[position[t]]

\* The position after instruction i, the loop starting over after the last.
After(t, i) == IF i = Len(Code(t)) THEN 1 ELSE i + 1

\* The position after the with block that begins at instruction i.
RECURSIVE AfterBlock(_, _)
AfterBlock(t, i) ==
  IF Code(t)[i].op = "release" THEN After(t, i) ELSE AfterBlock(t, i + 1)

\* A thread executes its instruction; entering a with block waits for the
\* lock to be free.
Execute(t) ==
  /\ Current(t).op = "acquire" => state_lock = None
  /\ state_lock' =
       CASE Current(t).op = "acquire" -> t
         [] Current(t).op = "release" -> None
         [] OTHER -> state_lock
  /\ position' = [position EXCEPT ![t] = After(t, position[t])]
  /\ UNCHANGED <<daemon, replay, spf_run, cost_run, network>>

\* A branch not taken (a packet of the other type, an unchanged topology, a
\* bandwidth already known, nothing to send): a thread that is outside the
\* with blocks passes over an instruction, or over a whole with block.
PassOver(t) ==
  /\ state_lock /= t
  /\ position' =
       [position EXCEPT
          ![t] = IF Current(t).op = "acquire"
                 THEN AfterBlock(t, position[t])
                 ELSE After(t, position[t])]
  /\ UNCHANGED <<daemon, state_lock, replay, spf_run, cost_run, network>>

LockInit ==
  /\ env = TimerEnvironment
  /\ Constructed
  /\ state_lock = None
  /\ position = [t \in Loops |-> 1]
  /\ replay = None
  /\ spf_run = None
  /\ cost_run = None
  /\ network = None

LockNext ==
  \/ \E t \in Loops : Execute(t)
  \/ \E t \in Loops : PassOver(t)

LockSpec == LockInit /\ [][LockNext]_vars

\* C23 as claimed: a thread that writes to the shared state (last_hello, a
\* neighbour's metrics, a link vector, the LSDB, routing_table,
\* installed_routes, the own seqnum) holds the state lock, and no two threads
\* are about to write installed_routes, or a neighbour's metrics, at the same
\* time.
C23_WritesUnderMutex ==
  /\ \A t \in Loops : Current(t).op = "write" => state_lock = t
  /\ \A t, u \in Loops :
       (/\ t /= u
        /\ Current(t).op = "write"
        /\ Current(u).op = "write"
        /\ Current(t).what \in {"installed_routes", "metrics"})
         => Current(u).what /= Current(t).what

\* C24: no thread holds the state lock while it makes a call that can block:
\* a UDP send, a ping probe, an ip command (or the listener's recvfrom).
C24_NoBlockingCallUnderLock ==
  \A t \in Loops : Current(t).op = "call" => state_lock /= t

\* C24: a thread is about to make a blocking call while another thread holds
\* the lock.
C24_Witness ==
  \E t \in Loops : Current(t).op = "call" /\ state_lock \notin {None, t}

\* C25 as claimed: a datagram that the listener does not take to the end of a
\* handler (bytes that do not decode, a JSON value that is not an object, an
\* LSA whose seqnum, hops or link cost is not a number) is discarded with no
\* effect on any last_hello, on the LSDB and its stored sequence numbers, or
\* on the routes.
C25_MalformedPacketHasNoEffect ==
  [][ last'.op = "process_datagram"
        => UNCHANGED <<neighbors, lsdb, routes>> ]_vars

\* C26: no step of the listener on an inbound LSA (the handler under the
\* lock, the route recalculation that follows, the reflood) changes a
\* neighbour's last_hello or metrics, from which its up/down state derives.
C26_LsaLeavesNeighborsAlone ==
  [][ (\/ last'.op \in {"process_lsa", "reflood"}
       \/ /\ last'.op \in {"snapshot", "sync_add", "sync", "apply"}
          /\ last'.worker = "listener")
        => neighbors' = neighbors ]_vars

\* C26: the LSA of a neighbour that has been heard from was accepted and
\* changed the topology.
C26_Witness ==
  /\ last.op = "process_lsa"
  /\ pc["listener"] = "snapshot"
  /\ last.msg.router_id \in DOMAIN neighbors
  /\ neighbors[last.msg.router_id].last_hello > 0

\* ------------------------------------------------------------------------
\* _process_lsa on a sequence of LSAs, fed twice
\* ------------------------------------------------------------------------

\* The LSDB as one value.
Lsdb(versions, graph, keys, prefixes) ==
  [lsa_versions |-> versions, topology_graph |-> graph,
   topology_keys |-> keys, lsdb_prefixes |-> prefixes]

\* Lines 233-276: the LSDB after _process_lsa(pkt), given the LSDB before.
LsdbAfter(db, pkt) ==
  LET origin == pkt.router_id
      before_links == Get(db.topology_graph, origin, EmptyDict)
      old_prefixes == Get(db.lsdb_prefixes, origin, {})
      new_prefixes == StringPrefixes(pkt.prefixes)
  IN  IF ~IsNewer(pkt.seqnum, Get(db.lsa_versions, origin, 0 - 1))
      THEN db
      ELSE Lsdb(Put(db.lsa_versions, origin, pkt.seqnum),
                Put(db.topology_graph, origin,
                    AppliedLinks(before_links, pkt.neighbors)),
                Touch(db.topology_keys, origin),
                IF ReplacesPrefixes(new_prefixes, old_prefixes)
                THEN Put(db.lsdb_prefixes, origin, new_prefixes)
                ELSE db.lsdb_prefixes)

\* The LSAs a replayed sequence is made of: two origins, old and new
\* sequence numbers, two link vectors, with and without prefixes.
ReplayLsas ==
  [type : {"lsa"}, router_id : {"r2", "r4"}, neighbors : LinkVectors,
   seqnum : 0..MaxSeq, prefixes : {{}, {Str(RemotePrefix)}}, hops : {MaxHops}]

Scripts == UNION {[1..n -> ReplayLsas] : n \in 0..MaxScript}

\* A daemon as constructed is given a sequence of LSAs.
ReplayInit ==
  /\ env = TimerEnvironment
  /\ Constructed
  /\ state_lock = None
  /\ position = EmptyDict
  /\ spf_run = None
  /\ cost_run = None
  /\ network = None
  /\ \E script \in Scripts :
       LET db == Lsdb(lsa_versions, topology_graph, topology_keys,
                      lsdb_prefixes)
       IN  replay = [script |-> script, done |-> 0, db |-> db, once |-> db]

\* The next LSA of the sequence is processed; after the last one the sequence
\* starts again, once.  `once` keeps the LSDB as the first pass left it.
ReplayStep ==
  LET n == Len(replay.script)
      pkt == replay.script[(replay.done % n) + 1]
      db == LsdbAfter(replay.db, pkt)
  IN  /\ replay.done < 2 * n
      /\ replay' =
           [replay EXCEPT
              !.done = replay.done + 1,
              !.db = db,
              !.once = IF replay.done < n THEN db ELSE replay.once]
      /\ UNCHANGED <<daemon, state_lock, position, spf_run, cost_run, network>>

ReplaySpec == ReplayInit /\ [][ReplayStep]_vars

\* C27: once a sequence of LSAs has been processed, processing the same
\* sequence again in the same order changes nothing: the LSDB after the
\* second pass, and after each LSA of it, is the LSDB the first pass left.
C27_ReplayLeavesLsdb ==
  replay.done >= Len(replay.script) => replay.db = replay.once

\* C27: a sequence of MaxScript LSAs, some of which the first pass stored,
\* has been processed twice.
C27_Witness ==
  /\ Len(replay.script) = MaxScript
  /\ replay.done = 2 * MaxScript
  /\ replay.db.lsa_versions /= EmptyDict
  /\ \E i, j \in 1..MaxScript :
       /\ i < j
       /\ replay.script[i].router_id = replay.script[j].router_id
       /\ replay.script[i].seqnum > replay.script[j].seqnum

\* ------------------------------------------------------------------------
\* calculate_shortest_paths on its own
\* ------------------------------------------------------------------------

\* No edge between two nodes.
NoEdge == 0 - 1

\* What a graph may have from one node to another: no edge, a finite weight
\* from 0 to MaxWeight, or float("inf").
EdgeChoices == {NoEdge, Inf} \cup 0..MaxWeight

\* The dict of node n in a graph with the given directed edges; edges is a
\* function from pairs of nodes to EdgeChoices.
EdgesOf(edges, n) ==
  [m \in {x \in Routers : <<n, x>> \in DOMAIN edges /\ edges[<<n, x>>] /= NoEdge}
     |-> edges[<<n, m>>]]

\* The graphs SPF is given: the square r1-r2, r1-r3, r2-r4, r3-r4.  The links
\* of r1 weigh the same in both directions, as _update_link_metrics writes
\* them; the links of r4 are announced by either end on its own.  A node
\* without an LSA of its own is not a key of the graph.
SpfGraphs ==
  { [n \in keys |->
       EdgesOf([e \in {<<"r1", "r2">>, <<"r2", "r1">>, <<"r1", "r3">>,
                       <<"r3", "r1">>, <<"r2", "r4">>, <<"r4", "r2">>,
                       <<"r3", "r4">>, <<"r4", "r3">>} |->
                  CASE e \in {<<"r1", "r2">>, <<"r2", "r1">>} -> w[1]
                    [] e \in {<<"r1", "r3">>, <<"r3", "r1">>} -> w[2]
                    [] e = <<"r2", "r4">> -> w[3]
                    [] e = <<"r4", "r2">> -> w[4]
                    [] e = <<"r3", "r4">> -> w[5]
                    [] e = <<"r4", "r3">> -> w[6]], n)] :
      w \in [1..6 -> EdgeChoices], keys \in {Routers, Routers \ {"r4"}} }

SpfInit ==
  /\ env = TimerEnvironment
  /\ Constructed
  /\ state_lock = None
  /\ position = EmptyDict
  /\ replay = None
  /\ cost_run = None
  /\ network = None
  /\ \E graph \in SpfGraphs, start_node \in {"r1", "r4"} :
       spf_run = [graph |-> graph, start_node |-> start_node,
                  done |-> FALSE, routing_table |-> EmptyDict]

\* routing_table = calculate_shortest_paths(graph, start_node)
RunSpf ==
  /\ ~spf_run.done
  /\ spf_run' =
       [spf_run EXCEPT
          !.done = TRUE,
          !.routing_table =
             calculate_shortest_paths(spf_run.graph, spf_run.start_node)]
  /\ UNCHANGED <<daemon, state_lock, position, replay, cost_run, network>>

SpfSpec == SpfInit /\ [][RunSpf]_vars

\* The weight of the edge from a to b; Inf when there is none.
Weight(graph, a, b) == Get(Get(graph, a, EmptyDict), b, Inf)

\* Distances from `a` after one more round of relaxing every edge.
Relax(graph, a, dist) ==
  [n \in Routers |->
     LET through == {Plus(dist[m], Weight(graph, m, n)) : m \in Routers}
     IN  CHOOSE d \in through \cup {dist[n]} :
           \A other \in through \cup {dist[n]} : d <= other]

RECURSIVE Relaxed(_, _, _, _)
Relaxed(graph, a, dist, rounds) ==
  IF rounds = 0 THEN dist
  ELSE Relaxed(graph, a, Relax(graph, a, dist), rounds - 1)

\* The least total weight of a path from a to b over edges of finite weight;
\* Inf when there is no such path.
Distance(graph, a, b) ==
  Relaxed(graph, a, [n \in Routers |-> IF n = a THEN 0 ELSE Inf],
          Cardinality(Routers))[b]

\* C28: whatever the graph (weights from 0 up, or infinite) and the start
\* node, SPF gives a first hop only to destinations other than the start node
\* that can be reached over edges of finite weight, and every first hop is a
\* direct neighbour of the start node over an edge of finite weight.
C28_FirstHopsAreNeighbours ==
  spf_run.done =>
    \A destination \in DOMAIN spf_run.routing_table :
      /\ destination /= spf_run.start_node
      /\ Distance(spf_run.graph, spf_run.start_node, destination) < Inf
      /\ Weight(spf_run.graph, spf_run.start_node,
                spf_run.routing_table[destination]) < Inf

\* C28: SPF has given a first hop to a destination two hops away, in a graph
\* that has an edge of infinite weight out of the start node and a node that
\* cannot be reached.
C28_Witness ==
  /\ spf_run.done
  /\ \E destination \in DOMAIN spf_run.routing_table :
       spf_run.routing_table[destination] /= destination
  /\ \E n \in Routers :
       /\ n \in DOMAIN spf_run.graph[spf_run.start_node]
       /\ spf_run.graph[spf_run.start_node][n] = Inf
  /\ \E n \in DOMAIN spf_run.graph :
       n \notin DOMAIN spf_run.routing_table \cup {spf_run.start_node}

IsSquare(graph) ==
  /\ DOMAIN graph = Routers
  /\ graph["r1"] = [n \in {"r2", "r3"} |-> 1]
  /\ graph["r2"] = [n \in {"r1", "r4"} |-> 1]
  /\ graph["r3"] = [n \in {"r1", "r4"} |-> 1]
  /\ graph["r4"] = [n \in {"r2", "r3"} |-> 1]

CostSamples ==
  [latency : {0, 20, 100, 250, Inf}, jitter : {0, 2, 20, Inf},
   loss : {0, 50, 100}, bandwidth : {0, 500, 1000, 2000}]

\* Weight vectors: non-negative, with a positive sum.
CostWeights ==
  { w \in [latency : {0, 25, 50}, jitter : {0, 35, 50}, loss : {0, 30, 50},
           bandwidth : {0, 10, 50}] :
      w.latency + w.jitter + w.loss + w.bandwidth > 0 }

\* The normalization bounds of the daemon, as NormalizationBounds.
CostBounds ==
  [latency_ms |-> latency_max_ms, jitter_ms |-> jitter_max_ms,
   loss_percent |-> 100, bandwidth_mbps |-> bandwidth_ref_mbps]

CostInit ==
  /\ env = TimerEnvironment
  /\ Constructed
  /\ state_lock = None
  /\ position = EmptyDict
  /\ replay = None
  /\ spf_run = None
  /\ network = None
  /\ \E sample \in CostSamples, weights \in CostWeights :
       cost_run = [sample |-> sample, weights |-> weights, done |-> FALSE,
                   cost |-> 0, qos_cost |-> 0]

\* Both cost functions are applied to the sample.
RunCost ==
  /\ ~cost_run.done
  /\ cost_run' =
       [cost_run EXCEPT
          !.done = TRUE,
          !.cost = CostWith(cost_run.weights, cost_run.sample.latency,
                            cost_run.sample.jitter, cost_run.sample.loss,
                            cost_run.sample.bandwidth),
          !.qos_cost = compute_qos_cost(cost_run.sample, cost_run.weights,
                                        CostBounds)]
  /\ UNCHANGED <<daemon, state_lock, position, replay, spf_run, network>>

CostSpec == CostInit /\ [][RunCost]_vars

\* What the claim asks of a cost (in thousandths) returned for a sample: it
\* lies in [0, 100] or is infinite, and it is infinite exactly when the loss
\* is 100 % or more or the latency or the jitter is not finite.
WithinClaim(cost, sample) ==
  /\ cost = Inf \/ (0 <= cost /\ cost <= Milli(100))
  /\ cost = Inf <=>
       (sample.loss >= 100 \/ sample.latency = Inf \/ sample.jitter = Inf)

\* C30 as claimed: for every QoS sample and every non-negative weight vector
\* with a positive sum, the cost function (_calculate_cost of the daemon,
\* compute_qos_cost of metrics.py) returns a value in [0, 100] or +inf, and
\* +inf exactly when loss >= 100 or latency or jitter is not finite.
C30_CostInRangeOrInfinite ==
  cost_run.done =>
    /\ WithinClaim(cost_run.cost, cost_run.sample)
    /\ WithinClaim(cost_run.qos_cost, cost_run.sample)

\* A sample with which a link can be used: finite latency and jitter, loss
\* under 100 %.
Usable(sample) ==
  sample.latency /= Inf /\ sample.jitter /= Inf /\ sample.loss < 100

\* The sum of weight times normalized term over the four components, the
\* terms in thousandths: min(value / bound, 1) for latency, jitter and loss,
\* 1 - min(bandwidth / bandwidth_ref_mbps, 1) for a bandwidth above 0 and 1
\* without one.
WeightedTerms(sample, weights) ==
  LET part(value, bound) == Min((1000 * value) \div bound, 1000)
  IN  weights.latency * part(sample.latency, latency_max_ms)
        + weights.jitter * part(sample.jitter, jitter_max_ms)
        + weights.loss * part(sample.loss, 100)
        + weights.bandwidth
            * (IF sample.bandwidth > 0
               THEN 1000 - part(sample.bandwidth, bandwidth_ref_mbps)
               ELSE 1000)

WeightSum(weights) ==
  weights.latency + weights.jitter + weights.loss + weights.bandwidth

\* Whether cost (in thousandths) is 100 * weighted / sum, to the nearest
\* thousandth.
IsWeightedMean(cost, sample, weights) ==
  LET exact == 100 * WeightedTerms(sample, weights)
      scaled == cost * WeightSum(weights)
  IN  /\ 2 * (scaled - exact) <= WeightSum(weights)
      /\ 2 * (exact - scaled) <= WeightSum(weights)

\* C31 as claimed: for a usable sample the cost (of _calculate_cost, and of
\* compute_qos_cost) is 100 times the weighted sum of the four normalized
\* terms divided by the sum of the weights; no loss, latency or jitter at the
\* reference bandwidth costs 0.
C31_CostIsWeightedMean ==
  (cost_run.done /\ Usable(cost_run.sample))
    => /\ IsWeightedMean(cost_run.cost, cost_run.sample, cost_run.weights)
       /\ IsWeightedMean(cost_run.qos_cost, cost_run.sample,
                         cost_run.weights)
       /\ cost_run.sample = [latency |-> 0, jitter |-> 0, loss |-> 0,
                             bandwidth |-> bandwidth_ref_mbps]
            => cost_run.cost = 0 /\ cost_run.qos_cost = 0

\* ------------------------------------------------------------------------
\* Shutdown
\* ------------------------------------------------------------------------

\* A short life of the daemon: one LSA of r2 arrives, both neighbours answer
\* the probes, and stop() may be called at any moment.
ShutdownEnvironment ==
  [name |-> "shutdown",
   lsas |-> {Lsa("r2", 1, [x \in {"r1"} |-> Milli(1)], {Str(RemotePrefix)})},
   sources |-> {"r2"},
   hellos |-> {},
   instants |-> {},
   samples |-> [n \in NeighborIds |-> {GoodSample}],
   passes |-> 1,
   stops |-> TRUE,
   datagrams |-> {}]

ShutdownInit == env = ShutdownEnvironment /\ Constructed /\ Apart

\* The steps of the daemon in that life.
ShutdownNext ==
  \/ HelloLoop
  \/ \E pkt \in env.lsas, src \in env.sources : ProcessLsa(pkt, src)
  \/ Reflood
  \/ \E w \in Workers : RecalculateSnapshot(w)
  \/ \E w \in Workers : SynchroniseAdd(w)
  \/ \E w \in Workers : SynchroniseRemove(w)
  \/ \E w \in Workers : RecalculateApply(w)
  \/ \E w \in Workers : BroadcastLsa(w)
  \/ CopyNeighbors
  \/ \E sample \in UNION {env.samples[n] : n \in NeighborIds} :
       UpdateLinkMetrics(sample)
  \/ DeadScan
  \/ Stop
  \/ \E t \in Workers \cup {"hello"} : LeaveLoop(t)
  \/ FlushRoutes

\* The threads are scheduled and the calls they are in return.  The step that
\* takes the snapshot and runs the SPF is told by the positions: a thread at
\* "snapshot" can always take it, whatever the SPF returns.
ShutdownSpec ==
  ShutdownInit /\ [][ShutdownNext]_vars /\ WF_vars(PassStep)
    /\ WF_pc(\E w \in Workers :
               pc[w] = "snapshot" /\ pc' = [pc EXCEPT ![w] = "sync"])

\* The thread has left its loop: it found the flag cleared, or an exception
\* that nothing catches ended it.
LeftLoop(t) == pc[t] \in {"ended", "raised"}

\* C32: once stop() has cleared the running flag and closed the socket, each
\* of the hello, listener, metric and dead-neighbour threads eventually leaves
\* its loop, as long as the calls it is in return: a thread that is in a pass
\* finishes the pass, finds the flag cleared and ends, and none of them
\* starts another pass.
C32_WorkersLeaveTheirLoops ==
  (pc["main"] /= "serving") ~> [](\A t \in Workers \cup {"hello"} : LeftLoop(t))

\* C32 happens: stop() has returned, the four threads have ended, and the
\* metric thread had published a self LSA before it ended.
C32_Witness ==
  /\ pc["main"] = "returned"
  /\ \A t \in Workers \cup {"hello"} : pc[t] = "ended"
  /\ own_seqnum > 0

\* stop() can find the metric thread and the dead-neighbour thread in the
\* middle of a pass.
C32_StopDuringPass ==
  /\ last.op = "stop"
  /\ pc["metrics"] = "update"
  /\ pc["listener"] = "sync"

\* ------------------------------------------------------------------------
\* Concurrent recomputation of the routes
\* ------------------------------------------------------------------------

\* No thread is in a pass: each one sleeps or waits for a datagram, or has
\* ended.
Quiescent == \A w \in Workers : pc[w] \in {Resting(w), "ended"}

\* C33: a stale SPF result never overwrites a newer one: once the listener,
\* the metric thread and the dead-neighbour thread have finished the
\* recomputations they started, the routing table held is the one computed
\* from the topology held, and, when no ip command has failed, so are the
\* installed routes.
C33_RoutesOfFinalTopology ==
  Quiescent =>
    LET final == calculate_shortest_paths(topology_graph, router_id)
    IN  /\ routing_table = final
        /\ ~ip_failed => installed_routes = DesiredPrefixes(final)

\* ------------------------------------------------------------------------
\* The entries of the other origins
\* ------------------------------------------------------------------------

\* The step just taken handled an inbound LSA of origin o that is newer than
\* the one stored, well formed or not.
HandledNewerOf(o) ==
  \/ /\ last'.op = "process_lsa"
     /\ last'.msg.router_id = o
     /\ IsNewer(last'.msg.seqnum, StoredSeq(o))
  \/ /\ last'.op = "process_datagram"
     /\ last'.datagram.form = "object"
     /\ last'.datagram.value.router_id = o

\* C34: the link vector stored for an origin other than this router changes
\* only when a newer LSA of that origin is accepted: no metric pass and no
\* dead-neighbour pass adds, removes or re-prices an edge of it.
C34_RemoteEntryChangesOnlyByItsLsa ==
  [][ \A o \in Routers \ {router_id} :
        ( \/ (o \in DOMAIN topology_graph') /= (o \in DOMAIN topology_graph)
          \/ Get(topology_graph', o, EmptyDict)
               /= Get(topology_graph, o, EmptyDict) )
          => HandledNewerOf(o) ]_vars

\* ------------------------------------------------------------------------
\* The edge to a silent neighbour
\* ------------------------------------------------------------------------

\* Neighbour n sent Hellos once and has been silent for longer than the dead
\* interval, and the edge to it is gone from this router's link vector.
SilentAndRemoved(n) ==
  /\ neighbors[n].last_hello > 0
  /\ Expired(neighbors[n].last_hello)
  /\ n \notin DOMAIN OwnLinks

\* C35: once the edge to a neighbour that has fallen silent is removed from
\* this router's link vector, it stays removed for as long as no Hello of the
\* neighbour arrives: no metric pass puts it back, whatever the probes answer.
C35_RemovedEdgeStaysRemoved ==
  [][ \A n \in NeighborIds :
        ( /\ SilentAndRemoved(n)
          /\ neighbors'[n].last_hello = neighbors[n].last_hello )
          => n \notin DOMAIN Get(topology_graph', router_id, EmptyDict) ]_vars

\* ------------------------------------------------------------------------
\* Self LSAs of concurrent threads
\* ------------------------------------------------------------------------

\* C36: self LSAs are numbered in the order their link vectors are read: each
\* one, whichever thread emits it, takes the number after the last one given
\* and carries this router's link vector as it is at that moment, so of two
\* self LSAs the one with the higher seqnum carries the later snapshot.
C36_HigherSeqCarriesLaterSnapshot ==
  [][ own_seqnum' /= own_seqnum
        => /\ own_seqnum' = own_seqnum + 1
           /\ sends' /= {}
           /\ \A d \in sends' :
                /\ d.msg.router_id = router_id
                /\ d.msg.seqnum = own_seqnum'
                /\ d.msg.neighbors =
                     Get(topology_graph', router_id, EmptyDict) ]_vars

\* C36 happens: the dead-neighbour thread emits the second self LSA, after it
\* deleted an edge that the first one advertised, while the metric thread is
\* in a pass that will emit the third.
C36_Witness ==
  /\ last.op = "broadcast"
  /\ last.worker = "dead"
  /\ own_seqnum = 2
  /\ last.previous.links /= OwnLinks
  /\ pc["metrics"] \in {"update", "broadcast"}

\* ------------------------------------------------------------------------
\* Flooding between several daemons
\* ------------------------------------------------------------------------

\* The configured neighbours of each router in the networks an LSA is flooded
\* in: a line r1-r2-r4-r3, the ring that closes it, and the ring with the
\* chord r2-r3, in which three cycles meet.
Topologies ==
  LET line == [r \in Routers |->
                 CASE r = "r1" -> {"r2"}
                   [] r = "r2" -> {"r1", "r4"}
                   [] r = "r4" -> {"r2", "r3"}
                   [] r = "r3" -> {"r4"}]
      ring == [r \in Routers |->
                 CASE r = "r1" -> {"r2", "r3"}
                   [] r = "r2" -> {"r1", "r4"}
                   [] r = "r4" -> {"r2", "r3"}
                   [] r = "r3" -> {"r4", "r1"}]
      chord == [r \in Routers |->
                  IF r \in {"r2", "r3"} THEN Routers \ {r} ELSE ring[r]]
  IN  {line, ring, chord}

\* Each router is a daemon as constructed, with its own LSDB; router r1 will
\* publish two self LSAs with the initial hop count ttl, and nothing is in
\* flight.
\* `forwarded` counts, by router and seqnum, the times the router re-flooded
\* the LSA; `refused` holds the routers that turned a copy away.
FloodInit ==
  /\ env = TimerEnvironment
  /\ Constructed
  /\ state_lock = None
  /\ position = EmptyDict
  /\ replay = None
  /\ spf_run = None
  /\ cost_run = None
  /\ \E links \in Topologies, ttl \in 0..MaxHops \cup {LSA_TTL_HOPS} :
       network =
         [links |-> links,
          ttl |-> ttl,
          emitted |-> 0,
          db |-> [r \in Routers |->
                    Lsdb(EmptyDict, [x \in {r} |-> EmptyDict], <<r>>,
                         EmptyDict)],
          in_flight |-> {},
          forwarded |-> [r \in Routers |-> [q \in 1..2 |-> 0]],
          refused |-> {}]

\* _broadcast_lsa at r1 (lines 370-385): the next self LSA, with a cost of the
\* links that differs from the last one's, is sent to every neighbour.
Emit ==
  /\ network.emitted < 2
  /\ \E cost \in {Milli(network.emitted + 1)} :
       LET pkt == [type |-> "lsa",
                   router_id |-> router_id,
                   neighbors |-> [n \in network.links[router_id] |-> cost],
                   seqnum |-> network.emitted + 1,
                   prefixes |-> {},
                   hops |-> network.ttl]
       IN  network' =
             [network EXCEPT
                !.emitted = network.emitted + 1,
                !.in_flight =
                   network.in_flight \cup
                     {[to |-> n, src |-> router_id, msg |-> pkt] :
                        n \in network.links[router_id]}]
  /\ UNCHANGED <<daemon, state_lock, position, replay, spf_run, cost_run>>

\* _listen_loop and _process_lsa at the router the datagram m is for (lines
\* 233-286): the seqnum test and the LSDB under the lock, then the copies
\* with one hop less for every neighbour but the origin.
Deliver(m) ==
  LET r == m.to
      pkt == m.msg
      origin == pkt.router_id
      db == network.db[r]
      after == LsdbAfter(db, pkt)
      changed ==
        \/ Get(after.topology_graph, origin, EmptyDict)
             /= Get(db.topology_graph, origin, EmptyDict)
        \/ after.lsdb_prefixes /= db.lsdb_prefixes
      copies ==
        IF Forwards(changed, pkt.hops)
        THEN {[to |-> n, src |-> r, msg |-> [pkt EXCEPT !.hops = pkt.hops - 1]] :
                n \in {x \in network.links[r] : x /= origin}}
        ELSE {}
  IN  /\ m \in network.in_flight
      /\ network' =
           [network EXCEPT
              !.db[r] = after,
              !.in_flight = (network.in_flight \ {m}) \cup copies,
              !.forwarded[r][pkt.seqnum] =
                 IF copies /= {} THEN @ + 1 ELSE @,
              !.refused = IF after = db THEN @ \cup {r} ELSE @]
      /\ UNCHANGED <<daemon, state_lock, position, replay, spf_run, cost_run>>

FloodNext ==
  \/ Emit
  \/ \E m \in network.in_flight : Deliver(m)

\* Every datagram in flight is delivered in the end.
FloodSpec ==
  FloodInit /\ [][FloodNext]_vars
    /\ WF_vars(\E m \in network.in_flight : Deliver(m))

\* C37: flooding ends in every network, with or without cycles: a router
\* re-floods an LSA of a given origin and seqnum at most once, every
\* re-flooded copy carries one hop less than the copy received and never a
\* negative count, and in the end no copy is in flight.
C37_FloodingTerminates ==
  /\ [](\A r \in Routers, q \in 1..2 : network.forwarded[r][q] <= 1)
  /\ [](\A m \in network.in_flight : m.msg.hops >= 0)
  /\ [][ \A m \in network.in_flight \ network'.in_flight :
           \A c \in network'.in_flight \ network.in_flight :
             c.src = m.to => c.msg.hops = m.msg.hops - 1 ]_vars
  /\ <>[](network.in_flight = {})

\* C37 happens: in the ring, with hops to spare, every LSA of r1 has reached
\* r4 from both sides; r4 re-flooded each of them once, turned the other
\* copies away, and nothing is in flight.
C37_Witness ==
  /\ network.links["r2"] = {"r1", "r4"}
  /\ network.links["r3"] = {"r1", "r4"}
  /\ network.ttl = LSA_TTL_HOPS
  /\ network.emitted = 2
  /\ \A q \in 1..2 : network.forwarded["r4"][q] = 1
  /\ "r4" \in network.refused
  /\ network.in_flight = {}

\* ------------------------------------------------------------------------
\* The listener after bad input
\* ------------------------------------------------------------------------

\* C38: the listener survives bad input: once a datagram that is malformed
\* (not UTF-8, not JSON, not a JSON object, or an LSA with a field that is
\* not a number) has been dealt with, the listener is back in recvfrom, where
\* a valid Hello or LSA delivered later is processed.
C38_ListenerSurvivesBadInput ==
  last.op = "process_datagram" => pc["listener"] = "recv"

\* ------------------------------------------------------------------------
\* Completeness of the SPF
\* ------------------------------------------------------------------------

\* C39: SPF is complete: every node other than the start node that can be
\* reached from it over edges of finite weight has a first hop in the result,
\* also a node that is only the target of edges and has no entry of its own
\* in the graph.
C39_SpfIsComplete ==
  spf_run.done =>
    \A n \in Routers \ {spf_run.start_node} :
      Distance(spf_run.graph, spf_run.start_node, n) < Inf
        => n \in DOMAIN spf_run.routing_table

====
